---- MODULE Spec2Model ----
(***************************************************************************)
(* The debug-session controller of LLMentor (class DebuggerTool) and the   *)
(* webview command handlers of ChatViewProvider that drive it.             *)
(*                                                                         *)
(* JavaScript runs one task at a time: the code between two awaits is one  *)
(* atomic action.  Every await on the transport (startDebugging,           *)
(* stopDebugging, customRequest), on a timer (delay, waitForStop) or on    *)
(* the LLM is a point where another handler, a timer callback or a         *)
(* transport notification may run.  Each handler invocation is a process p *)
(* with a program counter.                                                 *)
(*                                                                         *)
(* The transport (vscode.debug) is the environment: a session it runs      *)
(* pauses, hangs or ends on its own schedule.  A snapshot (DebugState) is  *)
(* abstracted to its line number; line 0 is the snapshot the code builds   *)
(* when the location read fails (location.data?.line || 0).                *)
(***************************************************************************)
EXTENDS Integers, Sequences, FiniteSets, TLC

\* ---- bounds of the model -------------------------------------------------
ProgLen == 3      \* lines of the (loop-free) target program: 1..ProgLen
MaxLaunch == 2    \* transport sessions launched in one run
MaxHist == 3      \* length of stateHistory at which no further call is issued
MaxStale == 1     \* timers of already-resolved waits tracked at once
MaxReplay == 2    \* replay iterations of stepBack followed in one call
MaxCmds == 3      \* webview commands handled in one run

\* ---- program constants ---------------------------------------------------
maxSteps == 1000  \* the replay loop's iteration ceiling

Procs == {1, 2}
NoProc == 0
NoSession == 0
Lines == 1..ProgLen
Sessions == 1..MaxLaunch
\* The ranges start_targeted is called with.
Ranges == {<<1, 2>>, <<2, 2>>}

VARIABLES
    \* DebuggerTool fields
    isDebugging,            \* boolean
    stoppedPromiseResolve,  \* NoProc (null) or the process whose wait's resolve is in the slot
    stateHistory,           \* sequence of snapshot lines
    isTargetedMode, targetStartLine, targetEndLine,
    targetedBreakpoints,    \* set of lines of the breakpoints the controller owns
    \* ChatViewProvider fields
    isWalkthroughActive, targetedSection,
    \* vscode.debug (the transport and the breakpoint store)
    sessions,               \* session id -> [st, line, mode]
    activeDebugSession,     \* NoSession or a session id
    breakpoints,            \* set of [line, owner]
    \* timers and promises
    wait,                   \* process -> "none" | "pending" | "resolved"
    timer,                  \* process -> is the timeout timer of its pending wait still set
    staleTimers,            \* timers still set whose wait was resolved by a stop event
    \* handler invocations
    proc,                   \* process -> its position and locals
    cmds                    \* webview commands handled so far

vars == <<isDebugging, stoppedPromiseResolve, stateHistory, isTargetedMode,
          targetStartLine, targetEndLine, targetedBreakpoints, isWalkthroughActive,
          targetedSection, sessions, activeDebugSession, breakpoints, wait, timer,
          staleTimers, proc, cmds>>

toolVars == <<isDebugging, stateHistory, isTargetedMode, targetStartLine,
              targetEndLine, targetedBreakpoints>>
chatVars == <<isWalkthroughActive, targetedSection>>
waitVars == <<stoppedPromiseResolve, wait, timer, staleTimers>>
envVars == <<sessions, activeDebugSession>>

\* ---- results ---------------------------------------------------------------
\* ToolResult: success, error, state (its line, -1 when the result has no state),
\* data.targetComplete.
NoState == 0 - 1
Ok(line) == [success |-> TRUE, error |-> "", state |-> line, targetComplete |-> FALSE]
Fail(msg) == [success |-> FALSE, error |-> msg, state |-> NoState, targetComplete |-> FALSE]
NoResult == [success |-> FALSE, error |-> "pending", state |-> NoState, targetComplete |-> FALSE]

IdleProc == [pc |-> "idle", cmd |-> "none", stage |-> "none", op |-> "none",
             session |-> NoSession,
             targetLine |-> 0, wasTargetedMode |-> FALSE, savedStartLine |-> 0,
             savedEndLine |-> 0, steps |-> 0, reader |-> NoSession, len0 |-> 0,
             result |-> NoResult]

NoSessionRec == [st |-> "none", line |-> 0, mode |-> "step"]
EndedSessionRec == [st |-> "ended", line |-> 0, mode |-> "step"]

\* ---- the transport ---------------------------------------------------------
Live(s) == sessions[s].st \in {"running", "stopped", "ending"}
Running(s) == sessions[s].st \in {"running", "stopped"}
LiveSessions == {s \in Sessions : Live(s)}
Launched == {s \in Sessions : sessions[s].st # "none"}

Max(S) == CHOOSE x \in S : \A y \in S : y <= x
Min(S) == CHOOSE x \in S : \A y \in S : x <= y

\* Where a running session pauses next in a loop-free program whose statements
\* are on the lines stmts: the following statement when stepping, the next
\* statement whose line carries a breakpoint when continuing; 0 when it runs off
\* the end.
NextPause(s, stmts) ==
    LET l == sessions[s].line
        bpLines == {b.line : b \in breakpoints}
        cand == IF sessions[s].mode = "step" THEN {x \in stmts : x > l}
                ELSE {x \in stmts : x > l /\ x \in bpLines}
    IN IF cand = {} THEN 0 ELSE Min(cand)

\* Session s with some fields changed.
SessionsWith(s, r) == [sessions EXCEPT ![s] = r]

\* The session that takes the focus when session s ends.
ActiveAfterEnd(s) ==
    IF activeDebugSession # s THEN activeDebugSession
    ELSE IF LiveSessions \ {s} = {} THEN NoSession
    ELSE Max(LiveSessions \ {s})

\* ---- breakpoints -------------------------------------------------------------
\* The lines startLine..endLine, whatever the program has on them.
RangeLines(a, b) == a..b
RangeBps(ls) == {[line |-> l, owner |-> "range"] : l \in ls}

\* A clearing that removes whatever breakpoint sits on a line of the range.
ClearedLines == {b \in breakpoints : b.line \notin targetedBreakpoints}

\* clearTargetedBreakpoints: the store once the owned breakpoints are removed.
ClearedStore == breakpoints \ RangeBps(targetedBreakpoints)

\* A result is on its way back to the caller: the caller's continuation runs
\* before any timer callback or transport notification is handled.
Returning == \E q \in Procs : proc[q].pc = "ret"

\* ---- waitForStop -------------------------------------------------------------
Saturate(n) == IF n < MaxStale THEN n + 1 ELSE MaxStale

\* A waitForStop that finds a stop event latched: it resolves at once when the
\* focused session is already stopped.
InstallWaitLatched(p) ==
    /\ timer' = [timer EXCEPT ![p] = TRUE]
    /\ IF activeDebugSession # NoSession /\ sessions[activeDebugSession].st = "stopped"
       THEN /\ wait' = [wait EXCEPT ![p] = "resolved"]
            /\ stoppedPromiseResolve' = NoProc
       ELSE /\ wait' = [wait EXCEPT ![p] = "pending"]
            /\ stoppedPromiseResolve' = p
    /\ UNCHANGED staleTimers

\* waitForStop(timeout): the resolve of p's new promise replaces whatever the slot
\* held, and a timer is set.
InstallWait(p) ==
    /\ stoppedPromiseResolve' = p
    /\ wait' = [wait EXCEPT ![p] = "pending"]
    /\ timer' = [timer EXCEPT ![p] = TRUE]
    /\ UNCHANGED staleTimers

\* The onDidChangeActiveStackItem callback: resolve the waiter in the slot, if any,
\* and empty the slot.  The resolved wait's timer stays set.
StopEventHandled ==
    IF stoppedPromiseResolve = NoProc
    THEN UNCHANGED waitVars
    ELSE /\ wait' = [wait EXCEPT ![stoppedPromiseResolve] = "resolved"]
         /\ timer' = [timer EXCEPT ![stoppedPromiseResolve] = FALSE]
         /\ staleTimers' = IF timer[stoppedPromiseResolve]
                           THEN Saturate(staleTimers) ELSE staleTimers
         /\ stoppedPromiseResolve' = NoProc

\* What the timer callback of a wait does to the slot: it tests the slot, not
\* whether the slot holds its own resolve.
SlotAfterTimer == NoProc
TimerResolves == stoppedPromiseResolve # NoProc

\* The timer callback of p's pending wait.
TimerFire(p) ==
    /\ ~Returning
    /\ timer[p]
    /\ timer' = [timer EXCEPT ![p] = FALSE]
    /\ IF TimerResolves
       THEN /\ stoppedPromiseResolve' = SlotAfterTimer
            /\ wait' = [wait EXCEPT ![p] = "resolved"]
       ELSE UNCHANGED <<stoppedPromiseResolve, wait>>
    /\ UNCHANGED <<staleTimers, toolVars, chatVars, envVars, breakpoints, proc, cmds>>

\* The timer callback of a wait that a stop event resolved earlier: its own
\* resolve() is a no-op by now, the slot test is not.
StaleTimerFire ==
    /\ ~Returning
    /\ staleTimers > 0
    /\ staleTimers' = staleTimers - 1
    /\ stoppedPromiseResolve' = IF TimerResolves THEN SlotAfterTimer
                                ELSE stoppedPromiseResolve
    /\ UNCHANGED <<wait, timer, toolVars, chatVars, envVars, breakpoints, proc, cmds>>

\* ---- the transport's own steps -------------------------------------------------
\* A running session of the program with the statements stmts pauses; vscode
\* fires onDidChangeActiveStackItem.
SessionPauseIn(s, stmts) ==
    /\ ~Returning
    /\ sessions[s].st = "running"
    /\ NextPause(s, stmts) # 0
    /\ sessions' = SessionsWith(s, [st |-> "stopped", line |-> NextPause(s, stmts),
                                    mode |-> "step"])
    /\ StopEventHandled
    /\ UNCHANGED <<toolVars, chatVars, activeDebugSession, breakpoints, proc, cmds>>

\* The program under debug has a statement on every line of Lines.
SessionPause(s) == SessionPauseIn(s, Lines)

\* A terminated handler that resets the flag and the history only.
SessionTerminateKeepsRange(s) ==
    /\ ~Returning
    /\ Live(s)
    /\ sessions' = SessionsWith(s, EndedSessionRec)
    /\ activeDebugSession' = ActiveAfterEnd(s)
    /\ isDebugging' = FALSE
    /\ stateHistory' = <<>>
    /\ UNCHANGED <<isTargetedMode, targetStartLine, targetEndLine, targetedBreakpoints,
                   breakpoints, chatVars, waitVars, proc, cmds>>

\* A session ends (the program exits, the adapter dies, the user stops it, or a
\* stop request completes); vscode fires onDidTerminateDebugSession, whose
\* callback does not look at which session ended.
SessionTerminate(s) ==
    /\ ~Returning
    /\ Live(s)
    /\ sessions' = SessionsWith(s, EndedSessionRec)
    /\ activeDebugSession' = ActiveAfterEnd(s)
    /\ isDebugging' = FALSE
    /\ stateHistory' = <<>>
    /\ breakpoints' = ClearedStore
    /\ targetedBreakpoints' = {}
    /\ isTargetedMode' = FALSE
    /\ targetStartLine' = 0
    /\ targetEndLine' = 0
    /\ UNCHANGED <<chatVars, waitVars, proc, cmds>>

\* ---- helpers of the operations ---------------------------------------------------
Set(p, r) == proc' = [proc EXCEPT ![p] = r]
Return(p, r, res) == Set(p, [r EXCEPT !.pc = "ret", !.result = res])
At(p, label) == ~Returning /\ proc[p].pc = label

\* A rejection that reaches the caller of execute instead of its catch.
Escapes(p, r, error) == Set(p, [r EXCEPT !.pc = "thrown"])

\* execute's catch: whatever an operation throws becomes a failure result.
Caught(p, r, error) == Return(p, r, Fail(error))

\* A clearing that turns the mode off and keeps the range's lines.
ClearTargetedModeKeepsLines ==
    /\ isTargetedMode' = FALSE
    /\ UNCHANGED <<targetStartLine, targetEndLine>>
    /\ breakpoints' = ClearedStore
    /\ targetedBreakpoints' = {}

\* clearTargetedMode()
ClearTargetedMode ==
    /\ isTargetedMode' = FALSE
    /\ targetStartLine' = 0
    /\ targetEndLine' = 0
    /\ breakpoints' = ClearedStore
    /\ targetedBreakpoints' = {}

\* A location read that reports the first line of the range for the first stop
\* of a targeted session.
LocationAtRangeStart(s) ==
    IF s # NoSession /\ sessions[s].st = "stopped"
    THEN IF isTargetedMode /\ stateHistory = <<>> THEN targetStartLine
         ELSE sessions[s].line
    ELSE 0

\* The line a location read of session s yields: the top frame's line when the
\* session is paused, 0 (no frame, or the request throws) otherwise.
LocationOf(s) == IF s # NoSession /\ sessions[s].st = "stopped" THEN sessions[s].line ELSE 0

\* A new session is launched and takes the focus.  With stopOnEntry it pauses at
\* the first line, without it the program runs to the first breakpoint.
NewSession == Max(Launched \cup {0}) + 1
CanLaunch == Cardinality(Launched) < MaxLaunch
LaunchedSessions(stopOnEntry) ==
    SessionsWith(NewSession, [st |-> "running", line |-> 0,
                              mode |-> IF stopOnEntry THEN "step" ELSE "cont"])

\* session.customRequest('next' | 'stepIn' | 'stepOut' | 'continue'): a paused
\* session resumes; any other session is left as it is.
Resumed(s, mode) ==
    IF sessions[s].st = "stopped"
    THEN SessionsWith(s, [sessions[s] EXCEPT !.st = "running", !.mode = mode])
    ELSE sessions

\* ---- startDebugging ------------------------------------------------------------
\* A failed launch after which the flag says a session is live.
LaunchFailedMarksLive(p, error) ==
    /\ Return(p, proc[p], Fail(error))
    /\ isDebugging' = TRUE
    /\ UNCHANGED <<envVars, waitVars>>

\* vscode.debug.startDebugging resolves to false: the operation returns its
\* failure; the flag, the history and the waiter slot are not touched.
LaunchFailed(p, error) ==
    /\ Return(p, proc[p], Fail(error))
    /\ UNCHANGED <<isDebugging, envVars, waitVars>>

\* A start that resets the history and the range before it looks for the file.
StartBeginResetsFirst(p, r, hasFile) ==
    /\ stateHistory' = <<>>
    /\ ClearTargetedMode
    /\ UNCHANGED isDebugging
    /\ IF ~hasFile
       THEN Return(p, [r EXCEPT !.op = "start"], Fail("No file to debug"))
       ELSE Set(p, [r EXCEPT !.op = "start", !.pc = "launch"])

\* Up to the await of vscode.debug.startDebugging.
StartBegin(p, r, hasFile) ==
    IF ~hasFile
    THEN /\ Return(p, [r EXCEPT !.op = "start"], Fail("No file to debug"))
         /\ UNCHANGED <<toolVars, breakpoints>>
    ELSE /\ stateHistory' = <<>>
         /\ ClearTargetedMode
         /\ UNCHANGED isDebugging
         /\ Set(p, [r EXCEPT !.op = "start", !.pc = "launch"])

\* vscode.debug.startDebugging resolves; on true the wait of 2000 ms is installed.
StartLaunched(p) ==
    /\ At(p, "launch") /\ proc[p].op = "start"
    /\ \/ /\ CanLaunch
          /\ sessions' = LaunchedSessions(TRUE)
          /\ activeDebugSession' = NewSession
          /\ isDebugging' = TRUE
          /\ InstallWait(p)
          /\ Set(p, [proc[p] EXCEPT !.pc = "wait"])
       \/ LaunchFailed(p, "Failed to start debug session")
       \/ /\ Caught(p, proc[p], "launch threw")
          /\ UNCHANGED <<isDebugging, envVars, waitVars>>
    /\ UNCHANGED <<stateHistory, isTargetedMode, targetStartLine, targetEndLine,
                   targetedBreakpoints, chatVars, breakpoints, cmds>>

\* ---- startTargetedDebugging -----------------------------------------------------
\* A start that adds the range's breakpoints to whatever the store holds.
StartTargetedKeepsExisting(p, r, a, b) ==
    /\ stateHistory' = <<>>
    /\ isTargetedMode' = TRUE
    /\ targetStartLine' = a
    /\ targetEndLine' = b
    /\ targetedBreakpoints' = RangeLines(a, b)
    /\ breakpoints' = breakpoints \cup RangeBps(RangeLines(a, b))
    /\ UNCHANGED isDebugging
    /\ Set(p, [r EXCEPT !.op = "start_targeted", !.pc = "launch"])

\* Up to the await of vscode.debug.startDebugging: the range is recorded, the file's
\* source breakpoints are removed and one breakpoint per line of the range is added.
StartTargetedBegin(p, r, a, b) ==
    /\ stateHistory' = <<>>
    /\ isTargetedMode' = TRUE
    /\ targetStartLine' = a
    /\ targetEndLine' = b
    /\ targetedBreakpoints' = RangeLines(a, b)
    /\ breakpoints' = RangeBps(RangeLines(a, b))
    /\ UNCHANGED isDebugging
    /\ Set(p, [r EXCEPT !.op = "start_targeted", !.pc = "launch"])

StartTargetedLaunched(p) ==
    /\ At(p, "launch") /\ proc[p].op = "start_targeted"
    /\ \/ /\ CanLaunch
          /\ sessions' = LaunchedSessions(FALSE)
          /\ activeDebugSession' = NewSession
          /\ isDebugging' = TRUE
          /\ InstallWait(p)
          /\ Set(p, [proc[p] EXCEPT !.pc = "wait"])
       \/ LaunchFailed(p, "Failed to start targeted debug session")
       \/ /\ Caught(p, proc[p], "launch threw")
          /\ UNCHANGED <<isDebugging, envVars, waitVars>>
    /\ UNCHANGED <<stateHistory, isTargetedMode, targetStartLine, targetEndLine,
                   targetedBreakpoints, chatVars, breakpoints, cmds>>

\* ---- getFullState ---------------------------------------------------------------
\* The wait of a start or a step has resolved: getFullState looks up the active
\* session and issues its reads, or fails at once when there is none.
PushOps == {"start", "start_targeted", "step_over", "step_into", "step_out",
            "continue", "continue_to_line"}
StartOps == {"start", "start_targeted"}

\* What an operation returns when getFullState found no session: start and
\* start_targeted report success with no state, a step passes the failure on.
NoSessionResult(op) ==
    IF op \in StartOps THEN Ok(NoState) ELSE Fail("No active debug session")

AfterWait(p) ==
    /\ At(p, "wait") /\ wait[p] = "resolved"
    /\ proc[p].op \in PushOps
    /\ wait' = [wait EXCEPT ![p] = "none"]
    /\ breakpoints' = IF proc[p].op = "continue_to_line"
                      THEN breakpoints \ {[line |-> proc[p].targetLine, owner |-> "temp"]}
                      ELSE breakpoints
    /\ IF activeDebugSession = NoSession
       THEN Return(p, proc[p], NoSessionResult(proc[p].op))
       ELSE Set(p, [proc[p] EXCEPT !.pc = "state", !.reader = activeDebugSession])
    /\ UNCHANGED <<toolVars, chatVars, envVars, stoppedPromiseResolve, timer,
                   staleTimers, cmds>>

\* A range check that also fires on the range's last line.
TargetCompleteAtEnd(op, line) ==
    op = "step_over" /\ isTargetedMode /\ line >= targetEndLine

\* stepOver's check after the push: past the end of the range in targeted mode.
TargetComplete(op, line) ==
    op = "step_over" /\ isTargetedMode /\ line > targetEndLine

\* The reads answer: the snapshot is assembled (success whatever the reads gave),
\* pushed on the history, and stepOver makes its range check.
StateRead(p) ==
    /\ At(p, "state") /\ proc[p].op \in PushOps
    /\ LET line == LocationOf(proc[p].reader)
           done == TargetComplete(proc[p].op, line)
       IN /\ stateHistory' = Append(stateHistory, line)
          /\ breakpoints' = IF done THEN ClearedStore ELSE breakpoints
          /\ targetedBreakpoints' = IF done THEN {} ELSE targetedBreakpoints
          /\ Return(p, proc[p], [Ok(line) EXCEPT !.targetComplete = done])
    /\ UNCHANGED <<isDebugging, isTargetedMode, targetStartLine, targetEndLine,
                   chatVars, envVars, waitVars, cmds>>

\* ---- stepOver, stepInto, stepOut, continueExecution --------------------------------
StepOps == {"step_over", "step_into", "step_out", "continue"}
RunMode(op) == IF op \in {"continue", "continue_to_line"} THEN "cont" ELSE "step"

\* Up to the await of session.customRequest.
StepBegin(p, r, op) ==
    IF activeDebugSession = NoSession
    THEN /\ Return(p, [r EXCEPT !.op = op], Fail("No active debug session"))
         /\ UNCHANGED sessions
    ELSE /\ sessions' = Resumed(activeDebugSession, RunMode(op))
         /\ Set(p, [r EXCEPT !.op = op, !.pc = "request", !.session = activeDebugSession,
                              !.len0 = Len(stateHistory)])

\* A stepping operation that installs its waiter before it knows the request's
\* outcome.
StepRequestedWaitsFirst(p) ==
    /\ At(p, "request") /\ proc[p].op \in StepOps \cup {"continue_to_line"}
    /\ InstallWait(p)
    /\ IF sessions[proc[p].session].st = "ended"
       THEN Caught(p, proc[p], "request threw")
       ELSE Set(p, [proc[p] EXCEPT !.pc = "wait"])
    /\ UNCHANGED <<toolVars, chatVars, envVars, breakpoints, cmds>>

\* The request's response arrives: waitForStop is called.  The request throws
\* when the session ended before it answered.
StepRequested(p) ==
    /\ At(p, "request") /\ proc[p].op \in StepOps \cup {"continue_to_line"}
    /\ IF sessions[proc[p].session].st = "ended"
       THEN /\ Caught(p, proc[p], "request threw")
            /\ UNCHANGED waitVars
       ELSE /\ InstallWait(p)
            /\ Set(p, [proc[p] EXCEPT !.pc = "wait"])
    /\ UNCHANGED <<toolVars, chatVars, envVars, breakpoints, cmds>>

\* ---- continueToLine -----------------------------------------------------------------
ContinueToLineBegin(p, r, line) ==
    IF activeDebugSession = NoSession
    THEN /\ Return(p, [r EXCEPT !.op = "continue_to_line"], Fail("No active debug session"))
         /\ UNCHANGED <<sessions, breakpoints>>
    ELSE /\ breakpoints' = breakpoints \cup {[line |-> line, owner |-> "temp"]}
         /\ sessions' = Resumed(activeDebugSession, "cont")
         /\ Set(p, [r EXCEPT !.op = "continue_to_line", !.pc = "request",
                              !.session = activeDebugSession, !.targetLine = line])

\* ---- setBreakpoints ------------------------------------------------------------------
\* The line sets set_breakpoints is called with.
BreakpointLines == {{}, {2}}
UserBps(ls) == {[line |-> l, owner |-> "user"] : l \in ls}

\* setBreakpoints(file, lines): every source breakpoint of the file is removed from
\* the store, whoever added it, and one new breakpoint per given line is added.
SetBreakpoints(p, r, hasFile, ls) ==
    IF ~hasFile \/ ls = {}
    THEN /\ Return(p, [r EXCEPT !.op = "set_breakpoints"], Fail("File and lines are required"))
         /\ UNCHANGED breakpoints
    ELSE /\ breakpoints' = UserBps(ls)
         /\ Return(p, [r EXCEPT !.op = "set_breakpoints"], Ok(NoState))

\* ---- execute: an action name that is none of the cases --------------------------------
UnknownAction(p, r) ==
    Return(p, [r EXCEPT !.op = "unknown"], Fail("Unknown action"))

\* ---- stopDebugging ------------------------------------------------------------------
\* What stopDebugging does once vscode.debug.stopDebugging has resolved, or at once
\* when there is no active session.
\* A stopDebugging that marks the session not live and leaves the range alone.
StopKeepsRange ==
    /\ isDebugging' = FALSE
    /\ UNCHANGED <<stateHistory, isTargetedMode, targetStartLine, targetEndLine,
                   targetedBreakpoints, breakpoints>>

StopEffects ==
    /\ isDebugging' = FALSE
    /\ ClearTargetedMode
    /\ UNCHANGED stateHistory

\* vscode.debug.stopDebugging(session) resolved: the session is told to end, and
\* ends (onDidTerminateDebugSession) some time later.
Ending(s) ==
    IF Running(s) THEN SessionsWith(s, [st |-> "ending", line |-> 0, mode |-> "step"])
    ELSE sessions

StopBegin(p, r) ==
    IF activeDebugSession = NoSession
    THEN /\ StopEffects
         /\ Return(p, [r EXCEPT !.op = "stop"], Ok(NoState))
    ELSE /\ Set(p, [r EXCEPT !.op = "stop", !.pc = "stopping",
                              !.session = activeDebugSession])
         /\ UNCHANGED <<toolVars, breakpoints>>

StopAnswered(p) ==
    /\ At(p, "stopping") /\ proc[p].op = "stop"
    /\ \/ /\ sessions' = Ending(proc[p].session)
          /\ StopEffects
          /\ Return(p, proc[p], Ok(NoState))
       \/ /\ Caught(p, proc[p], "stopDebugging threw")
          /\ UNCHANGED <<toolVars, breakpoints, sessions>>
    /\ UNCHANGED <<chatVars, activeDebugSession, waitVars, cmds>>

\* ---- getVariables, getCallStack, getCurrentLocation, getFullState, evaluate ------------
InspectOps == {"get_variables", "get_call_stack", "get_current_location",
               "get_state", "evaluate"}

InspectBegin(p, r, op, hasExpression) ==
    IF activeDebugSession = NoSession
    THEN Return(p, [r EXCEPT !.op = op], Fail("No active debug session"))
    ELSE IF op = "evaluate" /\ ~hasExpression
    THEN Return(p, [r EXCEPT !.op = op], Fail("Expression is required"))
    ELSE Set(p, [r EXCEPT !.op = op, !.pc = "reading", !.reader = activeDebugSession])

\* The results the requests of an inspection can give on session s: a paused
\* session answers; an ended one throws; what a running or ending one answers to
\* stackTrace, scopes and evaluate is the adapter's choice.
InspectResults(op, s) ==
    IF op = "get_state" THEN {Ok(LocationOf(s))}
    ELSE IF op = "get_current_location"
    THEN {IF LocationOf(s) # 0 THEN Ok(LocationOf(s)) ELSE Fail("No stack frame available")}
    ELSE IF sessions[s].st = "stopped" THEN {Ok(NoState)}
    ELSE IF sessions[s].st = "ended" THEN {Fail("request threw")}
    ELSE {Ok(NoState), Fail("request threw")}

InspectAnswered(p) ==
    /\ At(p, "reading") /\ proc[p].op \in InspectOps
    /\ \E res \in InspectResults(proc[p].op, proc[p].reader) : Return(p, proc[p], res)
    /\ UNCHANGED <<toolVars, chatVars, envVars, breakpoints, waitVars, cmds>>

\* ---- stepBack -----------------------------------------------------------------------
Last(h) == h[Len(h)]
Front(h) == SubSeq(h, 1, Len(h) - 1)

\* The history stepBack leaves once it has dropped the newest entry.
Popped(h) == Front(h)

\* canStepBack()
canStepBack == Len(stateHistory) > 1

AtBeginning == "Cannot step back - at the beginning"

\* A stepBack whose guard comes after the pop.
StepBackPopsFirst(p, r) ==
    /\ Return(p, [r EXCEPT !.op = "step_back"], Fail(AtBeginning))
    /\ stateHistory' = Popped(stateHistory)
    /\ UNCHANGED <<isDebugging, isTargetedMode, targetStartLine, targetEndLine,
                   targetedBreakpoints, breakpoints>>

\* stepBack's guard has failed: nothing but the return.
StepBackAtBeginning(p, r) ==
    /\ Return(p, [r EXCEPT !.op = "step_back"], Fail(AtBeginning))
    /\ UNCHANGED <<toolVars, breakpoints>>

\* Up to the await inside the stopDebugging() it calls.
StepBackBegin(p, r) ==
    IF Len(stateHistory) <= 1
    THEN StepBackAtBeginning(p, r)
    ELSE LET r1 == [r EXCEPT !.op = "step_back",
                             !.len0 = Len(stateHistory),
                             !.targetLine = Last(Popped(stateHistory)),
                             !.wasTargetedMode = isTargetedMode,
                             !.savedStartLine = targetStartLine,
                             !.savedEndLine = targetEndLine,
                             !.session = activeDebugSession]
         IN IF activeDebugSession = NoSession
            THEN /\ stateHistory' = Popped(stateHistory)
                 /\ isDebugging' = FALSE
                 /\ ClearTargetedMode
                 /\ Set(p, [r1 EXCEPT !.pc = "sb_delay"])
            ELSE /\ stateHistory' = Popped(stateHistory)
                 /\ Set(p, [r1 EXCEPT !.pc = "sb_stopping"])
                 /\ UNCHANGED <<isDebugging, isTargetedMode, targetStartLine,
                                targetEndLine, targetedBreakpoints, breakpoints>>

\* The stop request of stepBack's stopDebugging() resolves or throws.
StepBackStopped(p) ==
    /\ At(p, "sb_stopping")
    /\ \/ /\ sessions' = Ending(proc[p].session)
          /\ StopEffects
          /\ Set(p, [proc[p] EXCEPT !.pc = "sb_delay"])
       \/ /\ Caught(p, proc[p], "stopDebugging threw")
          /\ UNCHANGED <<toolVars, breakpoints, sessions>>
    /\ UNCHANGED <<chatVars, activeDebugSession, waitVars, cmds>>

\* delay(300) is over: the range is installed again and the relaunch is requested.
StepBackDelayed(p) ==
    /\ At(p, "sb_delay")
    /\ IF proc[p].wasTargetedMode
       THEN /\ isTargetedMode' = TRUE
            /\ targetStartLine' = proc[p].savedStartLine
            /\ targetEndLine' = proc[p].savedEndLine
            /\ targetedBreakpoints' = RangeLines(proc[p].savedStartLine, proc[p].savedEndLine)
            /\ breakpoints' = breakpoints \cup
                   RangeBps(RangeLines(proc[p].savedStartLine, proc[p].savedEndLine))
       ELSE UNCHANGED <<isTargetedMode, targetStartLine, targetEndLine,
                        targetedBreakpoints, breakpoints>>
    /\ Set(p, [proc[p] EXCEPT !.pc = "sb_launch"])
    /\ UNCHANGED <<isDebugging, stateHistory, chatVars, envVars, waitVars, cmds>>

\* startDebugging resolves (the configuration keeps stopOnEntry); on true the wait
\* of 2000 ms is installed.
StepBackLaunched(p) ==
    /\ At(p, "sb_launch")
    /\ \/ /\ CanLaunch
          /\ sessions' = LaunchedSessions(TRUE)
          /\ activeDebugSession' = NewSession
          /\ isDebugging' = TRUE
          /\ InstallWait(p)
          /\ Set(p, [proc[p] EXCEPT !.pc = "sb_synced"])
       \/ LaunchFailed(p, "Failed to restart debugger for step back")
       \/ /\ Caught(p, proc[p], "launch threw")
          /\ UNCHANGED <<isDebugging, envVars, waitVars>>
    /\ UNCHANGED <<stateHistory, isTargetedMode, targetStartLine, targetEndLine,
                   targetedBreakpoints, chatVars, breakpoints, cmds>>

\* A loop head that lets one more iteration through.
ReplayHeadOneMore(p, r) ==
    IF r.steps <= maxSteps
    THEN Set(p, [r EXCEPT !.pc = "sb_locating", !.reader = activeDebugSession])
    ELSE IF activeDebugSession = NoSession
    THEN Return(p, r, Fail("No active debug session"))
    ELSE Set(p, [r EXCEPT !.pc = "sb_state", !.reader = activeDebugSession])

\* One turn of the replay loop's head: past the ceiling, or with the loop left,
\* getFullState is called; else getCurrentLocation.  Both fail at once when no
\* session is active, and getCurrentLocation's failure reads as line 0.
ReplayHead(p, r) ==
    IF r.steps < maxSteps
    THEN Set(p, [r EXCEPT !.pc = "sb_locating", !.reader = activeDebugSession])
    ELSE IF activeDebugSession = NoSession
    THEN Return(p, r, Fail("No active debug session"))
    ELSE Set(p, [r EXCEPT !.pc = "sb_state", !.reader = activeDebugSession])

\* The wait after the relaunch has resolved.
StepBackSynced(p) ==
    /\ At(p, "sb_synced") /\ wait[p] = "resolved"
    /\ wait' = [wait EXCEPT ![p] = "none"]
    /\ IF activeDebugSession = NoSession
       THEN Return(p, proc[p], Fail("No active debug session after restart"))
       ELSE ReplayHead(p, [proc[p] EXCEPT !.session = activeDebugSession, !.steps = 0])
    /\ UNCHANGED <<toolVars, chatVars, envVars, breakpoints, stoppedPromiseResolve,
                   timer, staleTimers, cmds>>

\* The loop's test of the line it read.
ReplayReached(currentLine, targetLine) == currentLine >= targetLine

\* getCurrentLocation answers: the loop is left when the line reached the target,
\* else 'next' is sent to the session captured after the relaunch.  The replay is
\* followed for at most bound iterations.
StepBackLocatedUpTo(p, bound) ==
    /\ At(p, "sb_locating")
    /\ IF ReplayReached(LocationOf(proc[p].reader), proc[p].targetLine)
       THEN /\ IF activeDebugSession = NoSession
               THEN Return(p, proc[p], Fail("No active debug session"))
               ELSE Set(p, [proc[p] EXCEPT !.pc = "sb_state", !.reader = activeDebugSession])
            /\ UNCHANGED sessions
       ELSE /\ proc[p].steps < bound
            /\ sessions' = Resumed(proc[p].session, "step")
            /\ Set(p, [proc[p] EXCEPT !.pc = "sb_request"])
    /\ UNCHANGED <<toolVars, chatVars, activeDebugSession, breakpoints, waitVars, cmds>>

StepBackLocated(p) == StepBackLocatedUpTo(p, MaxReplay)

\* The 'next' of the replay answers: the wait of 500 ms is installed.
StepBackRequested(p) ==
    /\ At(p, "sb_request")
    /\ IF sessions[proc[p].session].st = "ended"
       THEN /\ Caught(p, proc[p], "request threw")
            /\ UNCHANGED waitVars
       ELSE /\ InstallWait(p)
            /\ Set(p, [proc[p] EXCEPT !.pc = "sb_wait"])
    /\ UNCHANGED <<toolVars, chatVars, envVars, breakpoints, cmds>>

\* The wait of a replay step has resolved.
StepBackWaited(p) ==
    /\ At(p, "sb_wait") /\ wait[p] = "resolved"
    /\ wait' = [wait EXCEPT ![p] = "none"]
    /\ IF ~isDebugging \/ activeDebugSession = NoSession
       THEN Return(p, [proc[p] EXCEPT !.steps = @ + 1],
                   Fail("Program ended before reaching target line"))
       ELSE ReplayHead(p, [proc[p] EXCEPT !.steps = @ + 1])
    /\ UNCHANGED <<toolVars, chatVars, envVars, breakpoints, stoppedPromiseResolve,
                   timer, staleTimers, cmds>>

\* The final getFullState of stepBack answers; nothing is pushed.
StepBackState(p) ==
    /\ At(p, "sb_state")
    /\ Return(p, proc[p], Ok(LocationOf(proc[p].reader)))
    /\ UNCHANGED <<toolVars, chatVars, envVars, breakpoints, waitVars, cmds>>

\* ---- execute(action, params), called by one caller at a time -----------------------------
Quiescent == \A q \in Procs : proc[q].pc = "idle"
CanPush == Len(stateHistory) < MaxHist
Fresh(cmd) == [IdleProc EXCEPT !.cmd = cmd]

CallStart ==
    /\ Quiescent /\ CanLaunch
    /\ \E hasFile \in BOOLEAN : StartBegin(1, Fresh("api"), hasFile)
    /\ UNCHANGED <<chatVars, envVars, waitVars, cmds>>

CallStartTargeted ==
    /\ Quiescent /\ CanLaunch
    /\ \E rg \in Ranges : StartTargetedBegin(1, Fresh("api"), rg[1], rg[2])
    /\ UNCHANGED <<chatVars, envVars, waitVars, cmds>>

CallStep ==
    /\ Quiescent /\ CanPush
    /\ \E op \in StepOps : StepBegin(1, Fresh("api"), op)
    /\ UNCHANGED <<toolVars, chatVars, activeDebugSession, breakpoints, waitVars, cmds>>

CallContinueToLine ==
    /\ Quiescent /\ CanPush
    /\ \E line \in Lines : ContinueToLineBegin(1, Fresh("api"), line)
    /\ UNCHANGED <<toolVars, chatVars, activeDebugSession, waitVars, cmds>>

CallStepBack ==
    /\ Quiescent /\ CanLaunch
    /\ StepBackBegin(1, Fresh("api"))
    /\ UNCHANGED <<chatVars, envVars, waitVars, cmds>>

CallInspect ==
    /\ Quiescent
    /\ \E op \in InspectOps, hasExpression \in BOOLEAN :
          /\ (op # "evaluate" => hasExpression)
          /\ InspectBegin(1, Fresh("api"), op, hasExpression)
    /\ UNCHANGED <<toolVars, chatVars, envVars, breakpoints, waitVars, cmds>>

CallStop ==
    /\ Quiescent
    /\ StopBegin(1, Fresh("api"))
    /\ UNCHANGED <<chatVars, envVars, waitVars, cmds>>

CallSetBreakpoints ==
    /\ Quiescent
    /\ \E hasFile \in BOOLEAN, ls \in BreakpointLines :
          SetBreakpoints(1, Fresh("api"), hasFile, ls)
    /\ UNCHANGED <<toolVars, chatVars, envVars, waitVars, cmds>>

CallUnknown ==
    /\ Quiescent
    /\ UnknownAction(1, Fresh("api"))
    /\ UNCHANGED <<toolVars, chatVars, envVars, breakpoints, waitVars, cmds>>

\* The public clearTargetedMode(), called between two operations.
CallClearTargetedMode ==
    /\ Quiescent
    /\ ClearTargetedMode
    /\ UNCHANGED <<isDebugging, stateHistory, chatVars, envVars, waitVars, proc, cmds>>

\* execute returns its result to the caller.
ApiReturn(p) ==
    /\ proc[p].pc = "ret" /\ proc[p].cmd = "api"
    /\ Set(p, IdleProc)
    /\ UNCHANGED <<toolVars, chatVars, envVars, breakpoints, waitVars, cmds>>

\* ---- the specification of the controller under a serial caller ------------------------------
Init ==
    /\ isDebugging = FALSE
    /\ stoppedPromiseResolve = NoProc
    /\ stateHistory = <<>>
    /\ isTargetedMode = FALSE
    /\ targetStartLine = 0
    /\ targetEndLine = 0
    /\ targetedBreakpoints = {}
    /\ isWalkthroughActive = FALSE
    /\ targetedSection = <<>>
    /\ sessions = [s \in Sessions |-> NoSessionRec]
    /\ activeDebugSession = NoSession
    /\ breakpoints = {}
    /\ wait = [p \in Procs |-> "none"]
    /\ timer = [p \in Procs |-> FALSE]
    /\ staleTimers = 0
    /\ proc = [p \in Procs |-> IdleProc]
    /\ cmds = 0

Operation(p) ==
    \/ StartLaunched(p)
    \/ StartTargetedLaunched(p)
    \/ StepRequested(p)
    \/ AfterWait(p)
    \/ StateRead(p)
    \/ StopAnswered(p)
    \/ InspectAnswered(p)
    \/ StepBackStopped(p)
    \/ StepBackDelayed(p)
    \/ StepBackLaunched(p)
    \/ StepBackSynced(p)
    \/ StepBackLocated(p)
    \/ StepBackRequested(p)
    \/ StepBackWaited(p)
    \/ StepBackState(p)

Timers == StaleTimerFire \/ \E p \in Procs : TimerFire(p)

Transport == \E s \in Sessions : SessionPause(s) \/ SessionTerminate(s)

Calls ==
    \/ CallStart
    \/ CallStartTargeted
    \/ CallStep
    \/ CallContinueToLine
    \/ CallStepBack
    \/ CallInspect
    \/ CallStop
    \/ CallSetBreakpoints
    \/ CallUnknown
    \/ CallClearTargetedMode

Next ==
    \/ Calls
    \/ ApiReturn(1)
    \/ Operation(1)
    \/ Timers
    \/ Transport

Spec == Init /\ [][Next]_vars

\* ---- ChatViewProvider: the webview's commands ---------------------------------------------
\* onDidReceiveMessage starts one handler per message and does not wait for the
\* handler of the message before: the two processes are two handlers in flight.
\* The LLM is configured and an editor is open; a stage names the call of
\* execute() a handler is waiting for.  A handler that has nothing left to do but
\* show the LLM's text is finished.  A new message is handled by the first
\* process that is free (which one is immaterial).
Idle(p) ==
    /\ ~Returning /\ proc[p].pc = "idle" /\ cmds < MaxCmds
    /\ \A q \in Procs : q < p => proc[q].pc # "idle"
Handler(cmd) == [Fresh(cmd) EXCEPT !.cmd = cmd]
Staged(r, stage) == [IdleProc EXCEPT !.cmd = r.cmd, !.stage = stage]
Finish(p) == Set(p, IdleProc)

\* _endWalkthrough, up to the await inside execute('stop').
EndWalkthrough(p, r) ==
    /\ isWalkthroughActive' = FALSE
    /\ targetedSection' = <<>>
    /\ StopBegin(p, Staged(r, "end"))

\* _explainCurrentState / _explainTargetedState, up to the await inside
\* execute('get_state').
Explain(p, r, active, section) ==
    IF ~active THEN Finish(p)
    ELSE InspectBegin(p, Staged(r, IF section # <<>> THEN "explainTargeted" ELSE "explain"),
                      "get_state", TRUE)

\* _finishTargetedDebugging, up to the await of the summary.
FinishTargeted(p, r) ==
    IF targetedSection = <<>> THEN Finish(p) ELSE Set(p, [r EXCEPT !.pc = "c_summary"])

\* 'startDebugWalkthrough': up to the await of the analysis.
CmdStartDebugWalkthrough(p) ==
    /\ Idle(p) /\ CanLaunch
    /\ isWalkthroughActive' = TRUE
    /\ targetedSection' = <<>>
    /\ Set(p, [Handler("startDebugWalkthrough") EXCEPT !.pc = "c_analysis"])
    /\ cmds' = cmds + 1
    /\ UNCHANGED <<toolVars, envVars, breakpoints, waitVars>>

\* The analysis arrives and execute('start') is called, or the LLM throws.
ChatAnalysed(p) ==
    /\ At(p, "c_analysis")
    /\ \/ /\ StartBegin(p, Staged(proc[p], "start"), TRUE)
          /\ UNCHANGED chatVars
       \/ /\ isWalkthroughActive' = FALSE
          /\ Finish(p)
          /\ UNCHANGED <<targetedSection, toolVars, breakpoints>>
    /\ UNCHANGED <<envVars, waitVars, cmds>>

\* 'nextStep': up to the await inside execute('step_over').
CmdNextStep(p) ==
    /\ Idle(p) /\ CanPush
    /\ isWalkthroughActive
    /\ StepBegin(p, Staged(Handler("nextStep"), "step"), "step_over")
    /\ cmds' = cmds + 1
    /\ UNCHANGED <<toolVars, chatVars, activeDebugSession, breakpoints, waitVars>>

\* _nextStep after the await of the explorer command that follows the step.
ChatStepped(p) ==
    /\ At(p, "c_stepped")
    /\ IF ~proc[p].result.success
       THEN IF ~isDebugging THEN Set(p, [proc[p] EXCEPT !.pc = "c_ended"]) ELSE Finish(p)
       ELSE IF proc[p].result.targetComplete THEN FinishTargeted(p, proc[p])
       ELSE Set(p, [proc[p] EXCEPT !.pc = "c_explain"])
    /\ UNCHANGED <<toolVars, chatVars, envVars, breakpoints, waitVars, cmds>>

\* _programEnded: the summary arrives (or the LLM throws), then _endWalkthrough.
ChatProgramEnded(p) ==
    /\ At(p, "c_ended")
    /\ EndWalkthrough(p, proc[p])
    /\ UNCHANGED <<envVars, waitVars, cmds>>

\* delay(300) or delay(500) is over: _explainCurrentState.
ChatExplain(p) ==
    /\ At(p, "c_explain")
    /\ Explain(p, proc[p], isWalkthroughActive, targetedSection)
    /\ UNCHANGED <<toolVars, chatVars, envVars, breakpoints, waitVars, cmds>>

\* _finishTargetedDebugging's finally block, once the summary arrived or threw.
ChatSummarised(p) ==
    /\ At(p, "c_summary")
    /\ targetedSection' = <<>>
    /\ ClearTargetedMode
    /\ Finish(p)
    /\ UNCHANGED <<isDebugging, stateHistory, isWalkthroughActive, envVars, waitVars, cmds>>

\* 'stepBack': up to the await inside execute('step_back').
CmdStepBack(p) ==
    /\ Idle(p) /\ CanLaunch
    /\ isWalkthroughActive
    /\ Len(stateHistory) > 1
    /\ StepBackBegin(p, Staged(Handler("stepBack"), "back"))
    /\ cmds' = cmds + 1
    /\ UNCHANGED <<chatVars, envVars, waitVars>>

\* 'stopDebugWalkthrough', or a message asking to stop: _endWalkthrough.
CmdStopDebugWalkthrough(p) ==
    /\ Idle(p)
    /\ EndWalkthrough(p, Handler("stopDebugWalkthrough"))
    /\ cmds' = cmds + 1
    /\ UNCHANGED <<envVars, waitVars>>

\* 'exitTargetedMode'
CmdExitTargetedMode(p) ==
    /\ Idle(p)
    /\ targetedSection' = <<>>
    /\ ClearTargetedMode
    /\ cmds' = cmds + 1
    /\ UNCHANGED <<isDebugging, stateHistory, isWalkthroughActive, envVars, waitVars, proc>>

\* 'clearChat'
CmdClearChat(p) ==
    /\ Idle(p)
    /\ isWalkthroughActive' = FALSE
    /\ targetedSection' = <<>>
    /\ cmds' = cmds + 1
    /\ UNCHANGED <<toolVars, envVars, breakpoints, waitVars, proc>>

\* 'sendMessage' asking to continue during a walkthrough: _continueFullWalkthrough
\* restarts the debugger when it is not debugging, else goes on at once.
ContinueWalkthrough(p, r) ==
    /\ targetedSection' = <<>>
    /\ ClearTargetedMode
    /\ Explain(p, r, isWalkthroughActive, <<>>)

CmdContinueWalkthrough(p) ==
    /\ Idle(p) /\ CanLaunch
    /\ isWalkthroughActive
    /\ IF ~isDebugging
       THEN /\ StartBegin(p, Staged(Handler("sendMessage"), "restart"), TRUE)
            /\ UNCHANGED chatVars
       ELSE /\ ContinueWalkthrough(p, Handler("sendMessage"))
            /\ UNCHANGED <<isDebugging, stateHistory, isWalkthroughActive>>
    /\ cmds' = cmds + 1
    /\ UNCHANGED <<envVars, waitVars>>

\* delay(500) after the restart is over.
ChatRestarted(p) ==
    /\ At(p, "c_restarted")
    /\ ContinueWalkthrough(p, proc[p])
    /\ UNCHANGED <<isDebugging, stateHistory, isWalkthroughActive, envVars, waitVars, cmds>>

\* Any other 'sendMessage' during a walkthrough: the LLM is asked whether the
\* question is about a section of the code.
CmdSendMessage(p) ==
    /\ Idle(p) /\ CanLaunch
    /\ isWalkthroughActive
    /\ Set(p, [Handler("sendMessage") EXCEPT !.pc = "c_check"])
    /\ cmds' = cmds + 1
    /\ UNCHANGED <<toolVars, chatVars, envVars, breakpoints, waitVars>>

\* _checkForTargetedQuestion answers: a section was understood and
\* _startTargetedDebugging stops a running session first, or none was and
\* _handleWalkthroughQuestion reads the state.
ChatChecked(p) ==
    /\ At(p, "c_check")
    /\ \/ /\ InspectBegin(p, Staged(proc[p], "question"), "get_state", TRUE)
          /\ UNCHANGED <<toolVars, chatVars, breakpoints>>
       \/ \E rg \in Ranges :
            /\ targetedSection' = rg
            /\ UNCHANGED isWalkthroughActive
            /\ IF isDebugging
               THEN StopBegin(p, Staged(proc[p], "targetedStop"))
               ELSE StartTargetedBegin(p, Staged(proc[p], "targetedStart"), rg[1], rg[2])
    /\ UNCHANGED <<envVars, waitVars, cmds>>

\* delay(300) after the stop is over: execute('start_targeted').
ChatTargetedStart(p) ==
    /\ At(p, "c_targeted")
    /\ IF targetedSection = <<>>
       THEN /\ Finish(p)
            /\ UNCHANGED <<toolVars, breakpoints>>
       ELSE StartTargetedBegin(p, Staged(proc[p], "targetedStart"),
                               targetedSection[1], targetedSection[2])
    /\ UNCHANGED <<chatVars, envVars, waitVars, cmds>>

\* execute() hands its result to the handler that awaited it.
ChatReturn(p) ==
    /\ proc[p].pc = "ret" /\ proc[p].cmd # "api"
    /\ LET r == [IdleProc EXCEPT !.cmd = proc[p].cmd, !.result = proc[p].result]
           stage == proc[p].stage
           ok == r.result.success
       IN CASE stage = "start" ->
                 /\ isWalkthroughActive' = (isWalkthroughActive /\ ok)
                 /\ IF ok THEN Set(p, [r EXCEPT !.pc = "c_explain"]) ELSE Finish(p)
                 /\ UNCHANGED <<targetedSection, toolVars, breakpoints>>
            [] stage = "restart" ->
                 /\ IF ok THEN Set(p, [r EXCEPT !.pc = "c_restarted"]) ELSE Finish(p)
                 /\ UNCHANGED <<chatVars, toolVars, breakpoints>>
            [] stage = "step" ->
                 /\ Set(p, [r EXCEPT !.pc = "c_stepped"])
                 /\ UNCHANGED <<chatVars, toolVars, breakpoints>>
            [] stage = "back" ->
                 /\ IF ok THEN Set(p, [r EXCEPT !.pc = "c_explain"]) ELSE Finish(p)
                 /\ UNCHANGED <<chatVars, toolVars, breakpoints>>
            [] stage = "explain" ->
                 IF ok /\ r.result.state # NoState
                 THEN /\ Finish(p)
                      /\ UNCHANGED <<chatVars, toolVars, breakpoints>>
                 ELSE EndWalkthrough(p, r)
            [] stage = "explainTargeted" ->
                 /\ IF ok /\ r.result.state # NoState
                    THEN Finish(p)
                    ELSE FinishTargeted(p, r)
                 /\ UNCHANGED <<chatVars, toolVars, breakpoints>>
            [] stage = "question" ->
                 /\ Finish(p)
                 /\ UNCHANGED <<chatVars, toolVars, breakpoints>>
            [] stage = "end" ->
                 /\ Finish(p)
                 /\ UNCHANGED <<chatVars, toolVars, breakpoints>>
            [] stage = "targetedStop" ->
                 /\ Set(p, [r EXCEPT !.pc = "c_targeted"])
                 /\ UNCHANGED <<chatVars, toolVars, breakpoints>>
            [] stage = "targetedStart" ->
                 /\ targetedSection' = IF ok THEN targetedSection ELSE <<>>
                 /\ IF ok THEN Set(p, [r EXCEPT !.pc = "c_explain"]) ELSE Finish(p)
                 /\ UNCHANGED <<isWalkthroughActive, toolVars, breakpoints>>
    /\ UNCHANGED <<envVars, waitVars, cmds>>

Commands(p) ==
    \/ CmdStartDebugWalkthrough(p)
    \/ CmdNextStep(p)
    \/ CmdStepBack(p)
    \/ CmdStopDebugWalkthrough(p)
    \/ CmdExitTargetedMode(p)
    \/ CmdClearChat(p)
    \/ CmdContinueWalkthrough(p)
    \/ CmdSendMessage(p)

Handlers(p) ==
    \/ ChatAnalysed(p)
    \/ ChatStepped(p)
    \/ ChatProgramEnded(p)
    \/ ChatExplain(p)
    \/ ChatSummarised(p)
    \/ ChatRestarted(p)
    \/ ChatChecked(p)
    \/ ChatTargetedStart(p)
    \/ ChatReturn(p)

ChatNext ==
    \/ \E p \in Procs : Commands(p) \/ Handlers(p) \/ Operation(p)
    \/ Timers
    \/ Transport

\* The controller driven by the webview's commands.
ChatSpec == Init /\ [][ChatNext]_vars

\* ---- what the claims speak of ---------------------------------------------------------------
Returned(p, ops) == proc[p].pc = "ret" /\ proc[p].op \in ops
Succeeded(p, ops) == Returned(p, ops) /\ proc[p].result.success

\* A pending wait that nothing can resolve any more: its resolve is not in the slot
\* (so no stop event reaches it) and its own timer has fired.
Stuck(p) == wait[p] = "pending" /\ stoppedPromiseResolve # p /\ ~timer[p]

RangeBpsInStore == {b \in breakpoints : b.owner = "range"}

\* C1: every waitForStop call resolves: by the next stop event or, failing that, by
\* its own timeout.  Stated on the step where the timeout of a still pending wait
\* fires: that step resolves the wait.
C1_TimeoutResolvesWait ==
    [][\A p \in Procs : (wait[p] = "pending" /\ timer[p] /\ ~timer'[p])
                             => wait'[p] = "resolved"]_vars

\* C2: no stepping or inspection operation returns success while getIsDebugging()
\* is false.
C2_NoSuccessWhenNotLive ==
    \A p \in Procs :
        Succeeded(p, StepOps \cup {"continue_to_line"} \cup InspectOps) => isDebugging

\* C3: at most one waitForStop is outstanding at any time, whatever commands the
\* webview sends.
C3_OneWaitOutstanding == Cardinality({p \in Procs : wait[p] = "pending"}) <= 1

\* C4: a successful step_back leaves the history exactly one entry shorter than it
\* was when step_back was called.
C4_StepBackDropsOne ==
    \A p \in Procs :
        Succeeded(p, {"step_back"}) => Len(stateHistory) = proc[p].len0 - 1

\* C5: every step_back call returns: it never reaches a wait that nothing can
\* resolve.
C5_StepBackReturns ==
    \A p \in Procs : proc[p].op = "step_back" => ~Stuck(p)

\* C6: the history is empty right after a session is destroyed or (re)started: when
\* stop has returned, and at the moment start or start_targeted launches.
C6_HistoryEmptyAfterStop ==
    \A p \in Procs :
        /\ Succeeded(p, {"stop"}) => Len(stateHistory) = 0
        /\ (proc[p].pc = "launch" /\ proc[p].op \in StartOps) => Len(stateHistory) = 0

\* C7: while the session is live and a stop of it has been observed (an operation
\* has just returned a snapshot of the paused session), the history is non-empty.
C7_HistoryNonEmptyWhileLive ==
    \A p \in Procs :
        (/\ proc[p].pc = "ret" /\ proc[p].result.success /\ proc[p].result.state > 0
         /\ isDebugging /\ activeDebugSession # NoSession)
            => Len(stateHistory) >= 1

\* C8: when start succeeds the session is live, targeted mode is off and the
\* history holds exactly the entry snapshot.
C8_StartLeavesEntrySnapshot ==
    \A p \in Procs :
        Succeeded(p, {"start"}) =>
            /\ isDebugging
            /\ ~isTargetedMode
            /\ proc[p].result.state # NoState
            /\ stateHistory = <<proc[p].result.state>>

\* C9: the transport never runs two sessions of the controller at once.
C9_AtMostOneSession == Cardinality({s \in Sessions : Running(s)}) <= 1

\* C10: stop always leaves the session not live and the targeted range cleared,
\* whatever the transport answers to the stop request.
C10_StopAlwaysClears ==
    \A p \in Procs :
        Returned(p, {"stop"}) =>
            /\ ~isDebugging
            /\ ~isTargetedMode
            /\ targetStartLine = 0 /\ targetEndLine = 0
            /\ targetedBreakpoints = {}
            /\ RangeBpsInStore = {}

\* ---- stop with no session ------------------------------------------------------------------
Cleared ==
    /\ ~isDebugging /\ ~isTargetedMode
    /\ targetStartLine = 0 /\ targetEndLine = 0
    /\ targetedBreakpoints = {}

Ends(s) == sessions[s].st # "ended" /\ sessions'[s].st = "ended"

\* C12: whenever a session terminates, whether or not a stop was asked for, the
\* step that handles the notification leaves the controller not live, the history
\* empty, targeted mode off with start and end reset, and no range breakpoint in
\* the store.
C12_TerminationClears ==
    [][(\E s \in Sessions : Ends(s))
           => (Cleared' /\ stateHistory' = <<>> /\ RangeBpsInStore' = {})]_vars

\* C12 witness: the first session, launched by the start_targeted that is still
\* waiting for its first stop, has ended with no stop call, and the range that
\* start_targeted installed is gone.
C12_TerminatedUnasked ==
    /\ proc[1].op = "start_targeted" /\ proc[1].pc = "wait"
    /\ sessions[1].st = "ended" /\ sessions[2].st = "none"
    /\ Cleared /\ stateHistory = <<>> /\ breakpoints = {}

\* ---- step_back ------------------------------------------------------------------------------
ProgramEnded == "Program ended before reaching target line"

\* C13: when the replayed program ends before the target line is reached and
\* step_back fails for it, the history is the history of before the call without
\* its last entry.
C13_ReplayEndKeepsShortened ==
    \A p \in Procs :
        (/\ Returned(p, {"step_back"}) /\ proc[p].result.error = ProgramEnded
         /\ sessions[proc[p].session].st = "ended")
            => (~proc[p].result.success /\ Len(stateHistory) = proc[p].len0 - 1)

\* C14: a successful step_back returns the snapshot a get_state made right after
\* it would read; its line is the replay's target line L, which is the line of the
\* entry that is now the tail of the history.
C14_StepBackReachesTarget ==
    \A p \in Procs :
        Succeeded(p, {"step_back"}) =>
            /\ proc[p].result.state = proc[p].targetLine
            /\ Len(stateHistory) >= 1
            /\ Last(stateHistory) = proc[p].result.state

\* C15: canStepBack() is true exactly when the history has more than one entry,
\* and step_back returns the at-beginning error exactly when canStepBack() is
\* false at the call; that call returns at once and changes neither the history,
\* the flag, the range nor the breakpoints, and nothing is asked of the transport.
C15_AtBeginningChangesNothing ==
    [][/\ (canStepBack <=> Len(stateHistory) >= 2)
       /\ CallStepBack =>
            IF canStepBack
            THEN proc'[1].pc # "ret"
            ELSE /\ proc'[1].pc = "ret" /\ ~proc'[1].result.success
                 /\ proc'[1].result.error = AtBeginning
                 /\ UNCHANGED <<toolVars, breakpoints, envVars, waitVars>>
       /\ \A p \in Procs :
            (/\ proc[p].pc # "ret" /\ proc'[p].pc = "ret" /\ proc'[p].op = "step_back"
             /\ proc'[p].result.error = AtBeginning)
                => (CallStepBack /\ ~canStepBack)]_vars

\* C15 witness: step_back has just refused at the beginning of a live, paused
\* session in targeted mode whose history holds its one entry.
C15_RefusedAtBeginning ==
    /\ Returned(1, {"step_back"}) /\ proc[1].result.error = AtBeginning
    /\ isDebugging /\ activeDebugSession # NoSession /\ isTargetedMode
    /\ Len(stateHistory) = 1 /\ LocationOf(activeDebugSession) > 0

\* ---- stepping --------------------------------------------------------------------------------
\* C16: a step_over that succeeds and has not ended the program (it returns a
\* snapshot of the session it stepped, paused at a line) leaves the history one
\* entry longer than it was when the step was called; N such steps add N.
C16_StepAppendsOne ==
    \A p \in Procs :
        (/\ Succeeded(p, {"step_over"}) /\ proc[p].result.state > 0
         /\ proc[p].reader = proc[p].session
         /\ sessions[proc[p].session].st = "stopped")
            => Len(stateHistory) = proc[p].len0 + 1

\* ---- the targeted range ------------------------------------------------------------------------
\* C17: whenever targeted mode is set, every line of the range carries a breakpoint
\* that the controller installed.
C17_RangeCarriesBreakpoints ==
    isTargetedMode =>
        /\ RangeBps(RangeLines(targetStartLine, targetEndLine)) \subseteq breakpoints
        /\ RangeLines(targetStartLine, targetEndLine) \subseteq targetedBreakpoints

\* C18: a step_over flagged target-complete has removed the range's breakpoints
\* and cleared the range: when it returns, targeted mode is off with start and end
\* reset, so nothing after it sees the range as active.
C18_TargetCompleteClearsRange ==
    \A p \in Procs :
        (Succeeded(p, {"step_over"}) /\ proc[p].result.targetComplete)
            => /\ ~isTargetedMode
               /\ targetStartLine = 0 /\ targetEndLine = 0
               /\ targetedBreakpoints = {} /\ RangeBpsInStore = {}

\* C19: a step_over is flagged target-complete exactly when it returns a snapshot
\* in targeted mode whose line is strictly greater than endLine; a step that is not
\* flagged (it landed on endLine or before it) leaves the mode, the range and the
\* range's breakpoints as they were.
C19_FlaggedIffPastEnd ==
    [][\A p \in Procs :
          (proc[p].pc # "ret" /\ proc'[p].pc = "ret" /\ proc'[p].op = "step_over")
              => /\ proc'[p].result.targetComplete
                      <=> (/\ proc'[p].result.success /\ isTargetedMode
                           /\ proc'[p].result.state > targetEndLine)
                 /\ ~proc'[p].result.targetComplete
                      => UNCHANGED <<isTargetedMode, targetStartLine, targetEndLine,
                                     targetedBreakpoints, breakpoints>>]_vars

\* C19 witness: a step_over in targeted mode has landed on endLine itself; it is
\* not flagged and the range still carries its breakpoints.
C19_LandedOnEndLine ==
    /\ Succeeded(1, {"step_over"}) /\ ~proc[1].result.targetComplete
    /\ isTargetedMode /\ proc[1].result.state = targetEndLine
    /\ targetStartLine < targetEndLine
    /\ RangeBps(RangeLines(targetStartLine, targetEndLine)) \subseteq breakpoints

\* C20: a step_into, step_out, continue or continue_to_line that returns, in
\* targeted mode, a snapshot whose line is beyond endLine is flagged
\* target-complete and has removed the range's breakpoints.
C20_EveryStepChecksRange ==
    \A p \in Procs :
        (/\ Succeeded(p, {"step_into", "step_out", "continue", "continue_to_line"})
         /\ isTargetedMode /\ proc[p].result.state > targetEndLine)
            => /\ proc[p].result.targetComplete
               /\ targetedBreakpoints = {} /\ RangeBpsInStore = {}

\* C21: start_targeted(file, s, e) removes every source breakpoint the file had
\* before the call, installs exactly one controller-owned breakpoint on each line
\* of [s, e], records [s, e] as the active range, launches the session with
\* stop-on-entry disabled, and none of its later steps touches the range or the
\* store again.
C21_StartTargetedInstallsRange ==
    [][/\ CallStartTargeted =>
              \E rg \in Ranges :
                 /\ breakpoints' = {[line |-> l, owner |-> "range"] : l \in rg[1]..rg[2]}
                 /\ targetedBreakpoints' = rg[1]..rg[2]
                 /\ isTargetedMode' /\ targetStartLine' = rg[1] /\ targetEndLine' = rg[2]
                 /\ proc'[1].op = "start_targeted" /\ proc'[1].pc = "launch"
                 /\ UNCHANGED sessions
       /\ (proc[1].op = "start_targeted" /\ proc'[1] # proc[1]) =>
              /\ UNCHANGED <<isTargetedMode, targetStartLine, targetEndLine,
                             targetedBreakpoints, breakpoints>>
              /\ \A s \in Sessions :
                    (sessions[s].st = "none" /\ sessions'[s].st # "none")
                        => sessions'[s].mode = "cont" /\ proc[1].pc = "launch"
       /\ (proc[1].op = "start_targeted" /\ proc[1].pc = "launch"
               /\ proc'[1].pc = "wait") =>
              \E s \in Sessions : sessions[s].st = "none" /\ sessions'[s].mode = "cont"
                                   /\ sessions'[s].st = "running"
      ]_vars

\* C21 witness: start_targeted with the range [1, 2] has returned a snapshot while the
\* store holds exactly the two breakpoints of the range.
C21_TargetedStarted ==
    /\ Succeeded(1, {"start_targeted"})
    /\ proc[1].result.state = 1
    /\ isTargetedMode /\ targetStartLine = 1 /\ targetEndLine = 2
    /\ targetedBreakpoints = {1, 2}
    /\ breakpoints = {[line |-> 1, owner |-> "range"], [line |-> 2, owner |-> "range"]}

\* C22: a step that clears the targeted range (clearTargetedMode, stop, a terminated
\* notification, a target-complete step) removes from the store the breakpoints
\* installed for the range and leaves every other breakpoint in it.
C22_ClearingRemovesOnlyRange ==
    [][((isTargetedMode /\ ~isTargetedMode')
           \/ (targetedBreakpoints # {} /\ targetedBreakpoints' = {}))
          => /\ {b \in breakpoints' : b.owner = "range"} = {}
             /\ {b \in breakpoints' : b.owner # "range"}
                    = {b \in breakpoints : b.owner # "range"}]_vars

\* C22 witness: a step_back made in targeted mode has installed the range again
\* next to a breakpoint of set_breakpoints on line 2, and the range was cleared
\* after that: the other breakpoint is still in the store.
C22_OtherBreakpointKept ==
    /\ proc[1].op = "step_back" /\ proc[1].pc \in {"sb_launch", "sb_synced"}
    /\ proc[1].wasTargetedMode
    /\ ~isTargetedMode /\ targetedBreakpoints = {}
    /\ breakpoints = {[line |-> 2, owner |-> "user"]}

\* C23: the targeted range does not outlive its session: whenever no operation is
\* in progress and no session is live (the flag is off and the transport runs no
\* session), targeted mode is off and no range breakpoint is in the store.
C23_RangeNeedsSession ==
    (Quiescent /\ ~isDebugging /\ LiveSessions = {})
        => ~isTargetedMode /\ RangeBpsInStore = {}

\* C24: a step_back called in targeted mode with the range [s, e] that returns the
\* snapshot of its target line from the relaunched session leaves the controller in
\* targeted mode with the range [s, e] and one range breakpoint on each of its
\* lines, whenever the old session's terminated notification was delivered.
C24_StepBackKeepsRange ==
    (/\ Succeeded(1, {"step_back"}) /\ proc[1].wasTargetedMode
     /\ proc[1].result.state = proc[1].targetLine /\ proc[1].targetLine > 0
     /\ sessions[proc[1].session].st = "stopped")
        => /\ isTargetedMode
           /\ targetStartLine = proc[1].savedStartLine
           /\ targetEndLine = proc[1].savedEndLine
           /\ RangeBpsInStore = {[line |-> l, owner |-> "range"] :
                                     l \in proc[1].savedStartLine..proc[1].savedEndLine}

\* C25: execute never lets a fault escape.  Every step of an operation either goes
\* on to one of its await points or returns a uniform result (success with no
\* error, or failure with an error and no snapshot); an unknown action, a request
\* to a session that has ended, and a launch that starts nothing all return a
\* failure with an error.
C25_FaultsBecomeResults ==
    [][/\ (proc'[1] # proc[1] /\ proc'[1].pc # "idle") =>
              /\ proc'[1].pc \in {"launch", "wait", "state", "request", "stopping",
                                   "reading", "sb_stopping", "sb_delay", "sb_launch",
                                   "sb_synced", "sb_locating", "sb_request", "sb_wait",
                                   "sb_state", "ret"}
              /\ proc'[1].pc = "ret" =>
                    LET res == proc'[1].result
                    IN IF res.success THEN res.error = ""
                       ELSE /\ res.error \notin {"", "pending"}
                            /\ res.state = NoState /\ ~res.targetComplete
       /\ CallUnknown =>
              /\ proc'[1].pc = "ret" /\ ~proc'[1].result.success
              /\ proc'[1].result.error = "Unknown action"
       /\ (/\ proc[1].pc \in {"request", "sb_request"}
           /\ sessions[proc[1].session].st = "ended"
           /\ proc'[1] # proc[1]) =>
              proc'[1].pc = "ret" /\ ~proc'[1].result.success
       /\ (/\ proc[1].pc \in {"launch", "sb_launch"}
           /\ proc'[1] # proc[1] /\ UNCHANGED sessions) =>
              proc'[1].pc = "ret" /\ ~proc'[1].result.success
      ]_vars

\* C25 witness: a step whose request was sent to a session that ended before it
\* answered has returned a failure.
C25_RequestThrewReturned ==
    /\ Returned(1, StepOps) /\ ~proc[1].result.success
    /\ proc[1].result.error = "request threw"
    /\ sessions[proc[1].session].st = "ended"

\* C26: get_state fails when no session is active and otherwise fails exactly when
\* the location read fails: a returned get_state is a success if and only if it
\* read a session whose location read gave a line.
C26_GetStateFailsWithLocation ==
    Returned(1, {"get_state"})
        => (proc[1].result.success
               <=> (proc[1].reader # NoSession /\ LocationOf(proc[1].reader) # 0))

\* C27: a start with no file to debug (no parameter, no active editor) returns the
\* failure 'No file to debug', asks for no launch, and leaves the history, the
\* liveness flag, the range, the breakpoints and the sessions as they were.
C27_StartWithoutFileChangesNothing ==
    [][(Quiescent /\ StartBegin(1, Fresh("api"), FALSE))
          => /\ proc'[1].pc = "ret" /\ proc'[1].op = "start"
             /\ ~proc'[1].result.success
             /\ proc'[1].result.error = "No file to debug"
             /\ proc'[1].result.state = NoState
             /\ UNCHANGED <<isDebugging, stateHistory, isTargetedMode, targetStartLine,
                            targetEndLine, targetedBreakpoints, breakpoints, sessions,
                            activeDebugSession, stoppedPromiseResolve, wait, timer>>]_vars

\* C27 witness: a start without a file has been refused while a targeted session
\* with a history and installed range breakpoints is live.
C27_RefusedDuringTargetedSession ==
    /\ Returned(1, {"start"}) /\ proc[1].result.error = "No file to debug"
    /\ isDebugging /\ activeDebugSession # NoSession
    /\ Len(stateHistory) = 2
    /\ isTargetedMode /\ targetStartLine = 1 /\ targetEndLine = 2
    /\ RangeBpsInStore # {}

\* C28: when the launch of start or start_targeted starts no session, the call
\* returns a failure carrying its launch-failed error (or the error the launch
\* threw) and no snapshot, the history stays empty, and the liveness flag and the
\* sessions are left as they were.
C28_FailedLaunchRecordsNothing ==
    [][(/\ proc[1].op \in StartOps /\ proc[1].pc = "launch"
        /\ proc'[1] # proc[1] /\ UNCHANGED sessions)
          => /\ proc'[1].pc = "ret" /\ ~proc'[1].result.success
             /\ proc'[1].result.error \in
                    {IF proc[1].op = "start" THEN "Failed to start debug session"
                     ELSE "Failed to start targeted debug session", "launch threw"}
             /\ proc'[1].result.state = NoState
             /\ stateHistory' = <<>>
             /\ UNCHANGED <<isDebugging, activeDebugSession, stoppedPromiseResolve,
                            wait, timer>>]_vars

\* C28 witness: with no session running, start has returned its launch-failed
\* error.
C28_StartFailedToLaunch ==
    /\ Returned(1, {"start"})
    /\ proc[1].result.error = "Failed to start debug session"
    /\ ~isDebugging /\ stateHistory = <<>> /\ LiveSessions = {}

\* ---- a walk through a five-line program --------------------------------------------------
\* start, step_over and step_back called one after the other on a loop-free
\* program with a statement on each of its lines.  The caller goes on to the
\* next call only while the history is the one the walk has produced so far:
\* one snapshot per line, from line 1 on.
ScenarioLen == 5    \* lines of the program
ScenarioHist == 4   \* length of stateHistory at which step_back is called
ScenarioProgram == 1..ScenarioLen
LineByLine(h) == h = [i \in 1..Len(h) |-> i]

ScenarioStart ==
    /\ Quiescent /\ Launched = {}
    /\ \E hasFile \in BOOLEAN : StartBegin(1, Fresh("api"), hasFile)
    /\ UNCHANGED <<chatVars, envVars, waitVars, cmds>>

ScenarioStepOver ==
    /\ Quiescent
    /\ stateHistory # <<>> /\ LineByLine(stateHistory) /\ Len(stateHistory) < ScenarioHist
    /\ StepBegin(1, Fresh("api"), "step_over")
    /\ UNCHANGED <<toolVars, chatVars, activeDebugSession, breakpoints, waitVars, cmds>>

ScenarioStepBack ==
    /\ Quiescent /\ CanLaunch
    /\ LineByLine(stateHistory) /\ Len(stateHistory) = ScenarioHist
    /\ StepBackBegin(1, Fresh("api"))
    /\ UNCHANGED <<chatVars, envVars, waitVars, cmds>>

ScenarioOperation(p) ==
    \/ StartLaunched(p)
    \/ StepRequested(p)
    \/ AfterWait(p)
    \/ StateRead(p)
    \/ StepBackStopped(p)
    \/ StepBackDelayed(p)
    \/ StepBackLaunched(p)
    \/ StepBackSynced(p)
    \/ StepBackLocated(p)
    \/ StepBackRequested(p)
    \/ StepBackWaited(p)
    \/ StepBackState(p)

ScenarioTransport ==
    \E s \in Sessions : SessionPauseIn(s, ScenarioProgram) \/ SessionTerminate(s)

ScenarioNext ==
    \/ ScenarioStart
    \/ ScenarioStepOver
    \/ ScenarioStepBack
    \/ ApiReturn(1)
    \/ ScenarioOperation(1)
    \/ Timers
    \/ ScenarioTransport

ScenarioSpec == Init /\ [][ScenarioNext]_vars

\* C29: in the walk through the five-line program (start: one entry at line 1;
\* three step_over: four entries, the last at line 4), a step_back that returns
\* the snapshot of line 3 leaves the history with the three entries 1, 2, 3.
C29_StepBackLeavesThree ==
    (Succeeded(1, {"step_back"}) /\ proc[1].result.state = 3)
        => stateHistory = <<1, 2, 3>>

\* ---- a targeted start on a range whose first line holds no statement ----------------------
\* start_targeted(file, 5, 8) as the first call, on a loop-free program of eight
\* lines with no statement on line 5, followed by steps and a stop.
TargetedRange == <<5, 8>>
TargetedProgram == (1..8) \ {5}

TargetedStart ==
    /\ Quiescent /\ Launched = {}
    /\ StartTargetedBegin(1, Fresh("api"), TargetedRange[1], TargetedRange[2])
    /\ UNCHANGED <<chatVars, envVars, waitVars, cmds>>

TargetedOperation(p) ==
    \/ StartTargetedLaunched(p)
    \/ StepRequested(p)
    \/ AfterWait(p)
    \/ StateRead(p)
    \/ StopAnswered(p)

TargetedTransport ==
    \E s \in Sessions : SessionPauseIn(s, TargetedProgram) \/ SessionTerminate(s)

TargetedNext ==
    \/ TargetedStart
    \/ CallStep
    \/ CallStop
    \/ ApiReturn(1)
    \/ TargetedOperation(1)
    \/ Timers
    \/ TargetedTransport

TargetedSpec == Init /\ [][TargetedNext]_vars

\* C30: start_targeted(file, 5, 8) on a program whose first statement in the range
\* is on line 6, when it returns with the session it read paused, returns the
\* snapshot of line 6, and that snapshot is the only entry of the history.
C30_FirstStopInRange ==
    (/\ Succeeded(1, {"start_targeted"})
     /\ proc[1].reader # NoSession
     /\ sessions[proc[1].reader].st = "stopped")
        => /\ proc[1].result.state = 6
           /\ stateHistory = <<6>>

\* C30 witness: the targeted start on [5, 8] has returned the snapshot of line 6
\* with the breakpoint of line 5 installed.
C30_StoppedAtSix ==
    /\ Succeeded(1, {"start_targeted"})
    /\ proc[1].result.state = 6 /\ stateHistory = <<6>>
    /\ isTargetedMode /\ targetStartLine = 5 /\ targetEndLine = 8
    /\ [line |-> 5, owner |-> "range"] \in breakpoints

\* C31: clearTargetedMode() can be called in any state between two operations;
\* after it targeted mode is off, start and end are 0, the owned record is empty
\* and no range breakpoint is in the store; it never changes the history or the
\* liveness flag; called when the range is already cleared it changes nothing.
C31_ClearIsIdempotent ==
    [][CallClearTargetedMode
          => /\ ~isTargetedMode' /\ targetStartLine' = 0 /\ targetEndLine' = 0
             /\ targetedBreakpoints' = {}
             /\ {b \in breakpoints' : b.owner = "range"} = {}
             /\ UNCHANGED <<stateHistory, isDebugging, sessions, activeDebugSession>>
             /\ (/\ ~isTargetedMode /\ targetStartLine = 0 /\ targetEndLine = 0
                 /\ targetedBreakpoints = {}) => UNCHANGED vars]_vars

\* C31 witness: the range of a live targeted session, started at line 2, has been
\* cleared by clearTargetedMode(): the session is still live with its history.
C31_ClearedDuringSession ==
    /\ Quiescent /\ isDebugging /\ activeDebugSession # NoSession
    /\ stateHistory = <<2>>
    /\ ~isTargetedMode /\ targetStartLine = 0 /\ targetEndLine = 0
    /\ targetedBreakpoints = {} /\ breakpoints = {}

\* ---- a replay that never sees its target line ---------------------------------------------
\* start, step_over and step_back on the program of Lines, with the replay loop
\* followed up to its own ceiling.
ReplayStart ==
    /\ Quiescent /\ Launched = {}
    /\ StartBegin(1, Fresh("api"), TRUE)
    /\ UNCHANGED <<chatVars, envVars, waitVars, cmds>>

ReplayStepOver ==
    /\ Quiescent /\ CanPush
    /\ StepBegin(1, Fresh("api"), "step_over")
    /\ UNCHANGED <<toolVars, chatVars, activeDebugSession, breakpoints, waitVars, cmds>>

ReplayOperation(p) ==
    \/ StartLaunched(p)
    \/ StepRequested(p)
    \/ AfterWait(p)
    \/ StateRead(p)
    \/ StepBackStopped(p)
    \/ StepBackDelayed(p)
    \/ StepBackLaunched(p)
    \/ StepBackSynced(p)
    \/ StepBackLocatedUpTo(p, maxSteps)
    \/ StepBackRequested(p)
    \/ StepBackWaited(p)
    \/ StepBackState(p)

ReplayNext ==
    \/ ReplayStart
    \/ ReplayStepOver
    \/ CallStepBack
    \/ ApiReturn(1)
    \/ ReplayOperation(1)
    \/ Timers
    \/ Transport

ReplaySpec == Init /\ [][ReplayNext]_vars

\* The 'next' requests the replay loop of p's step_back has sent so far.
NextRequests(r) == r.steps + (IF r.pc \in {"sb_request", "sb_wait"} THEN 1 ELSE 0)

\* C32: one step_back call sends at most 1000 'next' requests; when the wait of the
\* 1000th resolves with the session still there, the loop is left whatever the
\* line is: getFullState is called, and its answer is returned.
C32_ReplayBounded ==
    [][/\ proc'[1].op = "step_back" => NextRequests(proc'[1]) <= 1000
       /\ (/\ proc[1].op = "step_back" /\ proc[1].pc = "sb_wait"
           /\ proc[1].steps = 999 /\ proc'[1] # proc[1]) =>
              /\ proc'[1].steps = 1000
              /\ proc'[1].pc \in {"sb_state", "ret"}
       /\ (/\ proc[1].op = "step_back" /\ proc[1].pc = "sb_state"
           /\ proc'[1] # proc[1]) => proc'[1].pc = "ret"
      ]_vars

\* C32 witness: a step_back has returned after 1000 replay steps.
C32_ReturnedAtCeiling ==
    Returned(1, {"step_back"}) /\ proc[1].steps = 1000 /\ proc[1].targetLine > 0

\* ---- stepping on after the range is left ---------------------------------------------------
\* start_targeted(file, 1, 1) as the first call on the program of Lines, followed by
\* step_over calls and clearTargetedMode().
ExitedRange == <<1, 1>>

ExitStart ==
    /\ Quiescent /\ Launched = {}
    /\ StartTargetedBegin(1, Fresh("api"), ExitedRange[1], ExitedRange[2])
    /\ UNCHANGED <<chatVars, envVars, waitVars, cmds>>

ExitStepOver ==
    /\ Quiescent /\ CanPush
    /\ StepBegin(1, Fresh("api"), "step_over")
    /\ UNCHANGED <<toolVars, chatVars, activeDebugSession, breakpoints, waitVars, cmds>>

ExitOperation(p) ==
    \/ StartTargetedLaunched(p)
    \/ StepRequested(p)
    \/ AfterWait(p)
    \/ StateRead(p)

ExitNext ==
    \/ ExitStart
    \/ ExitStepOver
    \/ CallClearTargetedMode
    \/ ApiReturn(1)
    \/ ExitOperation(1)
    \/ Timers
    \/ Transport

ExitSpec == Init /\ [][ExitNext]_vars

\* C33: a step_over made after the step that left the range (the entry before the
\* new one is already past the range's end) is not scoped by that range: it is
\* not flagged target-complete.
C33_StepsAfterExitUnscoped ==
    (/\ Succeeded(1, {"step_over"})
     /\ Len(stateHistory) >= 3
     /\ stateHistory[Len(stateHistory) - 2] = ExitedRange[2]
     /\ stateHistory[Len(stateHistory) - 1] > ExitedRange[2]
     /\ Last(stateHistory) > ExitedRange[2])
        => ~proc[1].result.targetComplete

\* C34: the timeout timer of a waitForStop acts on that call's own waiter only: when
\* it fires after a stop event has resolved its wait, the slot, which may hold
\* the waiter of a later waitForStop, is left as it is.
C34_StaleTimerLeavesSlot ==
    [][staleTimers' < staleTimers => stoppedPromiseResolve' = stoppedPromiseResolve]_vars

\* C35: a stop event handled while no waiter is in the slot is dropped, not latched:
\* it changes no wait and leaves the slot empty; a waitForStop installed afterwards
\* starts pending, and a pending wait is resolved only in a step where a session
\* pauses or where its own timer fires.
PausedNow == \E s \in Sessions : sessions[s].st = "running" /\ sessions'[s].st = "stopped"

C35_StopWithoutWaiterDropped ==
    [][/\ (PausedNow /\ stoppedPromiseResolve = NoProc)
            => (wait' = wait /\ stoppedPromiseResolve' = NoProc)
       /\ \A p \in Procs :
            /\ (wait[p] # "pending" /\ wait'[p] # wait[p]) => wait'[p] \in {"pending", "none"}
            /\ (wait[p] = "pending" /\ wait'[p] = "resolved")
                    => (PausedNow \/ (timer[p] /\ ~timer'[p]))]_vars

\* The session paused between the answer to 'next' being awaited and waitForStop:
\* the wait is pending, its waiter still in the slot, the session already stopped.
C35_WaitingForDroppedStop ==
    /\ proc[1].op = "step_over" /\ proc[1].pc = "wait"
    /\ wait[1] = "pending" /\ stoppedPromiseResolve = 1
    /\ Launched = {1}
    /\ sessions[1].st = "stopped"

\* C36: whenever no call is in progress, getIsDebugging() is true exactly when the
\* transport has an active session launched by the controller.
C36_FlagMatchesTransport ==
    Quiescent => (isDebugging <=> (/\ activeDebugSession # NoSession
                                   /\ sessions[activeDebugSession].st \in {"running", "stopped"}))

\* C37: the breakpoints recorded in targetedBreakpoints are always exactly the
\* range breakpoints that are in the store.
C37_OwnedMatchesStore == RangeBps(targetedBreakpoints) = RangeBpsInStore

\* C38: continue_to_line leaves the breakpoint store as it found it: no step of
\* the call adds or removes a breakpoint other than its temporary one, and when the
\* call returns, on whatever path, no temporary breakpoint is in the store.
\* (A session that ends during the call has its own effect on the store, which
\* is the terminated handler's, not the call's.)
TempBps(store) == {b \in store : b.owner = "temp"}

C38_ContinueToLineKeepsStore ==
    [][(proc'[1].op = "continue_to_line" /\ proc'[1] # proc[1])
            => /\ breakpoints' \ TempBps(breakpoints') = breakpoints \ TempBps(breakpoints)
               /\ proc'[1].pc = "ret" => TempBps(breakpoints') = {}]_vars

\* C39: a stepping call (step_over, step_into, step_out, continue) that returns
\* unsuccessful because no session is active or because the request throws leaves
\* the history, the range and the breakpoints unchanged and installs no waiter:
\* no step of the call up to such a return changes any of them.
C39_FailedStepChangesNothing ==
    [][\A p \in Procs :
          (/\ proc[p].pc \in {"idle", "request"}
           /\ proc'[p] # proc[p]
           /\ proc'[p].op \in StepOps
           /\ proc'[p].pc # "wait")
              => /\ UNCHANGED <<stateHistory, isTargetedMode, targetStartLine, targetEndLine,
                                targetedBreakpoints, breakpoints>>
                 /\ UNCHANGED <<stoppedPromiseResolve, wait, timer>>]_vars

\* step_over returned the failure of its thrown 'next' request while a breakpoint
\* is in the store.
C39_StepOverThrewWithBreakpoint ==
    /\ Returned(1, {"step_over"})
    /\ proc[1].result.error = "request threw"
    /\ breakpoints # {}

\* C40: whenever no handler is in progress the orchestrator and the controller
\* agree: with _targetedSection null the controller is not in targeted mode, and
\* with _isWalkthroughActive false no session started by a walkthrough is live.
C40_OrchestratorAgrees ==
    Quiescent => /\ (targetedSection = <<>> => ~isTargetedMode)
                 /\ (~isWalkthroughActive => LiveSessions = {})

====
